---- MODULE Spec2Model ----
(***************************************************************************)
(* Model of SQLiteVectorStore (llama_index/vector_stores/sqlite/base.py)   *)
(* and of serialize_f32, the float-vector encoder it stores embeddings     *)
(* with.  One store instance is modelled; every method of the class is one *)
(* action.  The asynchronous methods never await, so each is one atomic    *)
(* step as well.                                                           *)
(***************************************************************************)
EXTENDS Integers, Sequences, FiniteSets, TLC

VARIABLES
    connection_string,  \* field connection_string (constructor argument)
    embed_dim,          \* field embed_dim (constructor argument)
    is_initialized,     \* private attribute _is_initialized
    db_set,             \* TRUE once the attribute self.db has been assigned
    db_conn,            \* identity of the connection self.db refers to (0: none)
    db_target,          \* the database name that connection was opened on
    db_tables,          \* schema objects of that database, in creation order
    rows,               \* committed rows of vec_items, in insertion order
    byteorder,          \* byte order of the platform (struct native mode)
    result,             \* outcome of the last method call
    calls               \* synchronous methods the last call delegated to

vars == <<connection_string, embed_dim, is_initialized, db_set, db_conn,
          db_target, db_tables, rows, byteorder, result, calls>>

configVars == <<connection_string, embed_dim, byteorder>>
storeVars  == <<is_initialized, db_set, db_conn, db_target, db_tables, rows>>

----------------------------------------------------------------------------
(* Bounds *)

MaxBatch == 2      \* nodes in one add call
MaxRows  == 2      \* rows in the table
MaxConn  == 1      \* connections opened over the life of the store
MaxLen   == 2      \* components of a vector handed to serialize_f32 directly

----------------------------------------------------------------------------
(* Python values *)

PyNone     == [isNone |-> TRUE,  val |-> 0]
PyInt(n)   == [isNone |-> FALSE, val |-> n]
PyObj(n)   == [isNone |-> FALSE, val |-> n]    \* the object of identity n

Memory == ":memory:"

ConnectionStrings == {Memory, "/data/vec.db"}
EmbedDims == {1, 2}
ByteOrders == {"little", "big"}

----------------------------------------------------------------------------
(* Doubles.  A Python float is an IEEE-754 double; the ones used here are  *)
(* zero, infinity, NaN, or (-1)^s * 2^e * (1 + m / 2^25) with 0 <= m <     *)
(* 2^25 and e >= -126 (normal in single precision).                        *)

FracUnit == 2 ^ 25

Num(s, e, m) == [kind |-> "num", s |-> s, e |-> e, m |-> m]
Zero         == [kind |-> "zero", s |-> 0, e |-> 0, m |-> 0]
Inf          == [kind |-> "inf",  s |-> 0, e |-> 0, m |-> 0]
NaN          == [kind |-> "nan",  s |-> 0, e |-> 0, m |-> 0]

One          == Num(0, 0, 0)                 \* 1.0
MinusTwo     == Num(1, 1, 0)                 \* -2.0
Half         == Num(0, -1, 0)                \* 0.5
Odd24        == Num(0, 24, 2)                \* 16777217.0, a rounding tie
NearMax      == Num(0, 127, FracUnit - 1)    \* rounds up past FLT_MAX
Huge         == Num(0, 129, 0)               \* 2^129, above FLT_MAX

Floats == {Zero, One, MinusTwo, Half, Odd24, NearMax, Huge, NaN}


Pow2(n) == 2 ^ n

(* The C conversion (float)x of struct's native "f": round the 25-bit      *)
(* fraction to 23 bits, ties to even; a carry out of the fraction raises   *)
(* the exponent; an exponent above 127 gives infinity.  The result is the  *)
(* sign bit, the biased exponent and the 23-bit fraction.                  *)
RoundF32(x) ==
    CASE x.kind = "zero" -> [s |-> x.s, exp |-> 0,   mant |-> 0]
      [] x.kind = "inf"  -> [s |-> x.s, exp |-> 255, mant |-> 0]
      [] x.kind = "nan"  -> [s |-> x.s, exp |-> 255, mant |-> Pow2(22)]
      [] OTHER ->
           LET q    == x.m \div 4
               r    == x.m % 4
               up   == (r > 2) \/ (r = 2 /\ q % 2 = 1)
               mant == IF up THEN q + 1 ELSE q
               e    == IF mant = Pow2(23) THEN x.e + 1 ELSE x.e
               frac == IF mant = Pow2(23) THEN 0 ELSE mant
           IN  IF e > 127
               THEN [s |-> x.s, exp |-> 255,     mant |-> 0]
               ELSE [s |-> x.s, exp |-> e + 127, mant |-> frac]

(* The four bytes of one component, most significant first. *)
F32BigEndian(x) ==
    LET f == RoundF32(x)
    IN  << f.s * 128 + f.exp \div 2,
           (f.exp % 2) * 128 + f.mant \div 65536,
           (f.mant \div 256) % 256,
           f.mant % 256 >>

Reverse(s) == [i \in 1..Len(s) |-> s[Len(s) + 1 - i]]

(* One "f" field of struct.pack in native mode: 4 bytes, platform order. *)
PackFloat(x) ==
    IF byteorder = "big" THEN F32BigEndian(x) ELSE Reverse(F32BigEndian(x))

(* struct.pack(f"{n}f", *values): n fields of 4 bytes, in argument order;  *)
(* native alignment of float is 4, so no padding is inserted.             *)
RECURSIVE StructPack(_, _)
StructPack(n, values) ==
    IF n = 0 THEN <<>>
    ELSE StructPack(n - 1, values) \o PackFloat(values[n])

(* A plausible slip: the vector written with a one-byte length prefix. *)
serialize_prefixed(vec) == <<Len(vec)>> \o StructPack(Len(vec), vec)

serialize_f32(vec) == StructPack(Len(vec), vec)

----------------------------------------------------------------------------
(* Nodes handed to add.  node.embedding is Optional[List[float]].          *)

Some(v)     == [some |-> TRUE,  v |-> v]
NoEmbedding == [some |-> FALSE, v |-> <<>>]

Node(id, emb, md, txt) ==
    [node_id |-> id, embedding |-> emb, metadata |-> md, text |-> txt]

NodeA == Node("a", Some(<<One>>),           <<>>,               "alpha")
NodeB == Node("b", Some(<<Half>>),          << <<"k", "v">> >>, "beta")
NodeC == Node("a", Some(<<One, MinusTwo>>), <<>>,               "gamma")

(* A node that was never embedded: embedding is None. *)
Unembedded == Node("n", NoEmbedding, <<>>, "nu")

Nodes == {NodeA, NodeB, NodeC}

RECURSIVE SeqsUpTo(_, _)
SeqsUpTo(S, n) ==
    IF n = 0 THEN {<<>>}
    ELSE LET shorter == SeqsUpTo(S, n - 1)
         IN  shorter \cup {Append(s, x) : s \in {t \in shorter : Len(t) = n - 1}, x \in S}

(* Batches of embedded nodes, and batches that end in the unembedded one   *)
(* (add stops at it, so what would follow it is never looked at).          *)
NodeBatches ==
    SeqsUpTo(Nodes, MaxBatch)
        \cup {Append(b, Unembedded) : b \in SeqsUpTo(Nodes, MaxBatch - 1)}
Vectors     == SeqsUpTo(Floats, MaxLen)

Kwargs == {{}, {"k"}}

(* json.dumps(metadata, separators=(",", ":")) of a string-to-string       *)
(* mapping, as the sequence of the tokens of the text.                     *)
RECURSIVE JsonPairs(_, _)
JsonPairs(md, n) ==
    IF n = 0 THEN <<>>
    ELSE JsonPairs(md, n - 1)
         \o (IF n > 1 THEN <<",">> ELSE <<>>)
         \o <<"\"", md[n][1], "\"", ":", "\"", md[n][2], "\"">>

JsonDumps(md) == <<"{">> \o JsonPairs(md, Len(md)) \o <<"}">>

(* The tuple built for each node before anything is written. *)
Item(node) ==
    <<node.node_id, node.embedding, JsonDumps(node.metadata), node.text>>

Items(nodes) == [i \in 1..Len(nodes) |-> Item(nodes[i])]

----------------------------------------------------------------------------
(* Outcomes of a call *)

Return(value) ==
    [outcome |-> "return", exc |-> "none", raised_by |-> "none", ret |-> value]

Raise(exc, where) ==
    [outcome |-> "raise", exc |-> exc, raised_by |-> where, ret |-> PyNone]

MkResult(op, args, kwargs, out) ==
    [op |-> op, args |-> args, kwargs |-> kwargs, outcome |-> out.outcome,
     exc |-> out.exc, raised_by |-> out.raised_by, ret |-> out.ret]

Call(name, args, kwargs) == [name |-> name, args |-> args, kwargs |-> kwargs]

----------------------------------------------------------------------------
(* The database: sqlite3 with the vec0 virtual table of sqlite_vec *)

VecItems(dim) == [name |-> "vec_items", dim |-> dim]

Max(S) == CHOOSE x \in S : \A y \in S : y <= x

(* id INTEGER PRIMARY KEY AUTOINCREMENT: one more than the largest id. *)
NextRowId(table) ==
    IF table = <<>> THEN 1 ELSE 1 + Max({table[i].id : i \in 1..Len(table)})

(* INSERT with node_id rewritten in place when it is already stored. *)
VecUpsert(tables, table, node_id, blob, metadata_, text) ==
    LET row(id) == [id |-> id, node_id |-> node_id, embedding |-> blob,
                    metadata_ |-> metadata_, text |-> text]
        hit == {i \in 1..Len(table) : table[i].node_id = node_id}
    IN  IF hit # {}
        THEN [ok |-> TRUE, exc |-> "none",
              table |-> [table EXCEPT ![Max(hit)] = row(table[Max(hit)].id)]]
        ELSE [ok |-> TRUE, exc |-> "none",
              table |-> Append(table, row(NextRowId(table)))]

(* INSERT that takes a blob of any size. *)
VecInsertUnchecked(tables, table, node_id, blob, metadata_, text) ==
    [ok |-> TRUE, exc |-> "none",
     table |-> Append(table, [id |-> NextRowId(table), node_id |-> node_id,
                              embedding |-> blob, metadata_ |-> metadata_,
                              text |-> text])]

(* INSERT INTO vec_items(node_id, embedding, metadata_, text) VALUES ...:  *)
(* fails when the table does not exist and when the blob is not the        *)
(* 4 * dim bytes of the declared column float[dim]; otherwise appends one  *)
(* row under a fresh id.                                                   *)
VecInsert(tables, table, node_id, blob, metadata_, text) ==
    IF \A i \in 1..Len(tables) : tables[i].name # "vec_items"
    THEN [ok |-> FALSE, exc |-> "OperationalError", table |-> table]
    ELSE LET decl == tables[CHOOSE i \in 1..Len(tables) : tables[i].name = "vec_items"]
         IN  IF Len(blob) # 4 * decl.dim
             THEN [ok |-> FALSE, exc |-> "OperationalError", table |-> table]
             ELSE [ok |-> TRUE, exc |-> "none",
                   table |-> Append(table,
                       [id |-> NextRowId(table), node_id |-> node_id,
                        embedding |-> blob, metadata_ |-> metadata_,
                        text |-> text])]

(* self.db.commit() left out of the loop. *)
CommitSkipped(committed, pending) == committed

(* self.db.commit(): the open transaction becomes the committed state. *)
Commit(committed, pending) == pending

(* Leaving "with self.db": commit on a normal exit, roll back on an error. *)
ContextExit(committed, pending, raised) ==
    IF raised THEN committed ELSE pending

(* A cursor made by self.db.cursor() that no statement is executed on. *)
NewCursor == [lastrowid |-> PyNone]

(* The loop of add over items i..Len(items).  committed is the committed   *)
(* table, pending the table as the connection sees it, ids the list built  *)
(* so far.                                                                 *)
RECURSIVE AddLoop(_, _, _, _, _)
AddLoop(items, i, committed, pending, ids) ==
    IF i > Len(items)
    THEN [table |-> ContextExit(committed, pending, FALSE), out |-> Return(ids)]
    ELSE LET item   == items[i]
             cursor == NewCursor
         IN  IF ~item[2].some
             THEN [table |-> ContextExit(committed, pending, TRUE),
                   out   |-> Raise("TypeError", "serialize_f32")]
             ELSE LET ins == VecInsert(db_tables, pending, item[1],
                                       serialize_f32(item[2].v), item[3], item[4])
                  IN  IF ~ins.ok
                      THEN [table |-> ContextExit(committed, pending, TRUE),
                            out   |-> Raise(ins.exc, "execute")]
                      ELSE AddLoop(items, i + 1, Commit(committed, ins.table),
                                   ins.table, Append(ids, cursor.lastrowid))

----------------------------------------------------------------------------
(* The methods, as functions of the current state *)

StoreState(init, set, conn, target, tables, table) ==
    [is_initialized |-> init, db_set |-> set, db_conn |-> conn,
     db_target |-> target, db_tables |-> tables, rows |-> table]

Current ==
    StoreState(is_initialized, db_set, db_conn, db_target, db_tables, rows)

(* self.db = sqlite3.connect(target): a new connection, bound to the       *)
(* attribute db as a plain Python assignment binds it; an in-memory        *)
(* database starts empty.                                                  *)
Connect(target) ==
    StoreState(FALSE, TRUE, db_conn + 1, target, <<>>, <<>>)

(* _initialize without the test of the flag. *)
initialize_unguarded(ext_ok) ==
    LET opened == Connect(Memory)
    IN  IF ~ext_ok
        THEN [st |-> opened, out |-> Raise("OperationalError", "sqlite_vec.load")]
        ELSE [st  |-> [opened EXCEPT !.db_tables = Append(@, VecItems(embed_dim)),
                                     !.is_initialized = TRUE],
              out |-> Return(PyNone)]

(* _initialize.  ext_ok: whether the extension loads and the table can be  *)
(* created.  The connection is assigned before the extension is loaded, so *)
(* a failure leaves self.db set and the flag false.                        *)
initialize_effect(ext_ok) ==
    IF is_initialized
    THEN [st |-> Current, out |-> Return(PyNone)]
    ELSE LET opened == Connect(":memory:")
         IN  IF ~ext_ok
             THEN [st |-> opened, out |-> Raise("OperationalError", "sqlite_vec.load")]
             ELSE [st  |-> [opened EXCEPT !.db_tables = Append(@, VecItems(embed_dim)),
                                          !.is_initialized = TRUE],
                   out |-> Return(PyNone)]

client_effect ==
    IF ~is_initialized THEN Return(PyNone) ELSE Return(PyObj(db_conn))

(* add: the items are built first; "with self.db" reads the attribute,     *)
(* which does not exist before _initialize has assigned it.                *)
add_effect(nodes, kwargs) ==
    LET items == Items(nodes)
    IN  IF ~db_set
        THEN [table |-> rows, out |-> Raise("AttributeError", "self.db")]
        ELSE AddLoop(items, 1, rows, rows, <<>>)

(* A stub that answers with an empty result. *)
query_empty(query, kwargs) == Return(<<>>)

get_nodes_effect(node_ids, filters)            == Raise("NotImplementedError", "get_nodes")
delete_effect(ref_doc_id, kwargs)              == Raise("NotImplementedError", "delete")
delete_nodes_effect(node_ids, filters, kwargs) == Raise("NotImplementedError", "delete_nodes")
clear_effect                                   == Raise("NotImplementedError", "clear")
query_effect(query, kwargs)                    == Raise("NotImplementedError", "query")
persist_effect(persist_path, fs)               == Return(PyNone)

----------------------------------------------------------------------------
(* Arguments the callers pass *)

NodeIdArgs   == {"None", "[a]"}
FilterArgs   == {"None", "filters"}
RefDocIds    == {"doc"}
Queries      == {"q"}
PersistPaths == {"./storage"}

NoDatabase == "none"

(* The object as __init__ leaves it: the two fields set, the flag false,   *)
(* no attribute db.                                                        *)
Constructed ==
    /\ connection_string \in ConnectionStrings
    /\ embed_dim \in EmbedDims
    /\ is_initialized = FALSE
    /\ db_set = FALSE
    /\ db_conn = 0
    /\ db_target = NoDatabase
    /\ db_tables = <<>>
    /\ rows = <<>>
    /\ result = MkResult("__init__", <<connection_string, embed_dim>>, {}, Return(PyNone))
    /\ calls = <<>>

(* The store is followed on a little-endian platform: none of its methods  *)
(* reads the bytes serialize_f32 returns.                                  *)
Init == Constructed /\ byteorder = "little"

(* The encoder is followed on both kinds of platform. *)
CodecInit == Constructed /\ byteorder \in ByteOrders

SetStore(st) ==
    /\ is_initialized' = st.is_initialized
    /\ db_set' = st.db_set
    /\ db_conn' = st.db_conn
    /\ db_target' = st.db_target
    /\ db_tables' = st.db_tables
    /\ rows' = st.rows

Finish(op, args, kwargs, out, delegated) ==
    /\ result' = MkResult(op, args, kwargs, out)
    /\ calls' = delegated
    /\ UNCHANGED configVars

----------------------------------------------------------------------------
(* Actions: one per method *)

initialize ==
    \E ext_ok \in BOOLEAN :
        /\ is_initialized \/ db_conn < MaxConn
        /\ LET e == initialize_effect(ext_ok)
           IN  /\ SetStore(e.st)
               /\ Finish("_initialize", <<>>, {}, e.out, <<>>)

client ==
    /\ Finish("client", <<>>, {}, client_effect, <<>>)
    /\ UNCHANGED storeVars

get_nodes ==
    \E node_ids \in NodeIdArgs, filters \in FilterArgs :
        /\ Finish("get_nodes", <<node_ids, filters>>, {},
                  get_nodes_effect(node_ids, filters), <<>>)
        /\ UNCHANGED storeVars

aget_nodes ==
    \E node_ids \in NodeIdArgs, filters \in FilterArgs :
        /\ Finish("aget_nodes", <<node_ids, filters>>, {},
                  get_nodes_effect(node_ids, filters),
                  <<Call("get_nodes", <<node_ids, filters>>, {})>>)
        /\ UNCHANGED storeVars

add ==
    \E nodes \in NodeBatches, kwargs \in Kwargs :
        /\ LET e == add_effect(nodes, kwargs)
           IN  /\ Len(e.table) <= MaxRows
               /\ rows' = e.table
               /\ Finish("add", nodes, kwargs, e.out, <<>>)
        /\ UNCHANGED <<is_initialized, db_set, db_conn, db_target, db_tables>>

async_add ==
    \E nodes \in NodeBatches, kwargs \in Kwargs :
        /\ LET e == add_effect(nodes, kwargs)
           IN  /\ Len(e.table) <= MaxRows
               /\ rows' = e.table
               /\ Finish("async_add", nodes, kwargs, e.out,
                         <<Call("add", nodes, kwargs)>>)
        /\ UNCHANGED <<is_initialized, db_set, db_conn, db_target, db_tables>>

delete ==
    \E ref_doc_id \in RefDocIds, delete_kwargs \in Kwargs :
        /\ Finish("delete", <<ref_doc_id>>, delete_kwargs,
                  delete_effect(ref_doc_id, delete_kwargs), <<>>)
        /\ UNCHANGED storeVars

adelete ==
    \E ref_doc_id \in RefDocIds, delete_kwargs \in Kwargs :
        /\ Finish("adelete", <<ref_doc_id>>, delete_kwargs,
                  delete_effect(ref_doc_id, delete_kwargs),
                  <<Call("delete", <<ref_doc_id>>, delete_kwargs)>>)
        /\ UNCHANGED storeVars

delete_nodes ==
    \E node_ids \in NodeIdArgs, filters \in FilterArgs, delete_kwargs \in Kwargs :
        /\ Finish("delete_nodes", <<node_ids, filters>>, delete_kwargs,
                  delete_nodes_effect(node_ids, filters, delete_kwargs), <<>>)
        /\ UNCHANGED storeVars

(* adelete_nodes passes node_ids and filters on and leaves delete_kwargs out. *)
adelete_nodes ==
    \E node_ids \in NodeIdArgs, filters \in FilterArgs, delete_kwargs \in Kwargs :
        /\ Finish("adelete_nodes", <<node_ids, filters>>, delete_kwargs,
                  delete_nodes_effect(node_ids, filters, {}),
                  <<Call("delete_nodes", <<node_ids, filters>>, {})>>)
        /\ UNCHANGED storeVars

clear ==
    /\ Finish("clear", <<>>, {}, clear_effect, <<>>)
    /\ UNCHANGED storeVars

aclear ==
    /\ Finish("aclear", <<>>, {}, clear_effect, <<Call("clear", <<>>, {})>>)
    /\ UNCHANGED storeVars

query ==
    \E q \in Queries, kwargs \in Kwargs :
        /\ Finish("query", <<q>>, kwargs, query_effect(q, kwargs), <<>>)
        /\ UNCHANGED storeVars

aquery ==
    \E q \in Queries, kwargs \in Kwargs :
        /\ Finish("aquery", <<q>>, kwargs, query_effect(q, kwargs),
                  <<Call("query", <<q>>, kwargs)>>)
        /\ UNCHANGED storeVars

persist ==
    \E persist_path \in PersistPaths :
        /\ Finish("persist", <<persist_path, "None">>, {},
                  persist_effect(persist_path, "None"), <<>>)
        /\ UNCHANGED storeVars

(* serialize_f32 called on its own. *)
serialize ==
    \E vec \in Vectors :
        /\ Finish("serialize_f32", vec, {}, Return(serialize_f32(vec)), <<>>)
        /\ UNCHANGED storeVars

Next ==
    \/ initialize
    \/ client
    \/ get_nodes
    \/ aget_nodes
    \/ add
    \/ async_add
    \/ delete
    \/ adelete
    \/ delete_nodes
    \/ adelete_nodes
    \/ clear
    \/ aclear
    \/ query
    \/ aquery
    \/ persist

Spec == Init /\ [][Next]_vars

CodecNext == serialize

CodecSpec == CodecInit /\ [][CodecNext]_vars

----------------------------------------------------------------------------
(* Vocabulary of the properties *)

AddOps  == {"add", "async_add"}
StubOps == {"query", "clear", "delete", "delete_nodes", "get_nodes"}
AsyncOps == {"aget_nodes", "async_add", "adelete", "adelete_nodes", "aclear", "aquery"}

SyncOf(op) ==
    CASE op = "aget_nodes"    -> "get_nodes"
      [] op = "async_add"     -> "add"
      [] op = "adelete"       -> "delete"
      [] op = "adelete_nodes" -> "delete_nodes"
      [] op = "aclear"        -> "clear"
      [] op = "aquery"        -> "query"

Ready == is_initialized /\ db_set /\ db_conn > 0 /\ Len(db_tables) = 1

(* The node's embedding is a list of embed_dim components. *)
Fits(node) == node.embedding.some /\ Len(node.embedding.v) = embed_dim

(* The node's embedding is a list of some other length. *)
WrongLength(node) == node.embedding.some /\ Len(node.embedding.v) # embed_dim

(* The first node of the batch that does not fit, 0 when all fit. *)
FirstMisfit(nodes) ==
    IF \A i \in 1..Len(nodes) : Fits(nodes[i]) THEN 0
    ELSE CHOOSE i \in 1..Len(nodes) :
             ~Fits(nodes[i]) /\ \A j \in 1..(i - 1) : Fits(nodes[j])

(* table is old followed by one row for each of the first n nodes, in      *)
(* order, each carrying its node's fields, every id in table used once.    *)
Extends(old, table, nodes, n) ==
    /\ Len(table) = Len(old) + n
    /\ \A i \in 1..Len(old) : table[i] = old[i]
    /\ \A i \in 1..n :
          LET row == table[Len(old) + i]
          IN  /\ row.node_id = nodes[i].node_id
              /\ row.embedding = serialize_f32(nodes[i].embedding.v)
              /\ row.metadata_ = JsonDumps(nodes[i].metadata)
              /\ row.text = nodes[i].text
    /\ \A i, j \in 1..Len(table) : i # j => table[i].id # table[j].id

----------------------------------------------------------------------------
(* Properties *)

(* C1: after an access to client or a call of add the store is Ready       *)
(* (connection open, schema created, flag true) although _initialize was   *)
(* never called by the caller: client does not yield None, and add of      *)
(* nodes that fit does not fail.                                           *)
C1_FirstUseInitializes ==
    result.op \in {"client", "add"} =>
        /\ Ready
        /\ result.op = "client" => ~result.ret.isNone
        /\ (result.op = "add" /\ FirstMisfit(result.args) = 0) =>
               result.outcome = "return"

(* C2: an add that succeeds on a store holding no rows returns one id per  *)
(* node, the i-th being the primary key of the row inserted for the i-th   *)
(* node, all distinct and strictly increasing in input order.              *)
C2_AddReturnsPrimaryKeys ==
    (/\ result.op \in AddOps
     /\ result.outcome = "return"
     /\ Len(rows) = Len(result.args)) =>
        /\ Len(result.ret) = Len(result.args)
        /\ \A i \in 1..Len(result.ret) : result.ret[i] = PyInt(rows[i].id)
        /\ \A i, j \in 1..Len(result.ret) :
              i < j => result.ret[i].val < result.ret[j].val

(* C3: in every state, query, clear, delete, delete_nodes and get_nodes    *)
(* end in NotImplementedError for every argument, never in a normal        *)
(* return, and leave the flag, the connection and the rows as they were.   *)
C3_StubsRaiseAndChangeNothing ==
    [][result'.op \in StubOps =>
          /\ result'.outcome = "raise"
          /\ result'.exc = "NotImplementedError"
          /\ UNCHANGED storeVars]_vars

C3_Witness ==
    /\ result.op = "query"
    /\ result.outcome = "raise"
    /\ Ready
    /\ Len(rows) >= 1

C5_OpensConfiguredTarget ==
    is_initialized => db_target = connection_string

(* C6: an add that succeeds on a Ready store appends exactly one row per   *)
(* node, in order, carrying the node's node_id, encoded embedding, JSON    *)
(* metadata and text; a node_id already stored, or repeated in the call,   *)
(* gets a further row, and no existing row changes.                        *)
C6_OneRowPerNode ==
    [][(/\ result'.op \in AddOps
        /\ result'.outcome = "return"
        /\ Ready) =>
          Extends(rows, rows', result'.args, Len(result'.args))]_vars

C6_Witness ==
    /\ result.op = "add"
    /\ result.outcome = "return"
    /\ Ready
    /\ Len(result.args) = 2
    /\ result.args[1].node_id = result.args[2].node_id
    /\ Len(rows) = 2
    /\ rows[1].node_id = rows[2].node_id
    /\ rows[1].id # rows[2].id

(* C7: _initialize on a Ready store returns without error and changes      *)
(* nothing: no second connection, no second schema object, the rows kept;  *)
(* and a Ready store stays Ready under every operation.                    *)
C7_InitializeIdempotent ==
    [][/\ Ready => Ready'
       /\ (Ready /\ result'.op = "_initialize") =>
             /\ result'.outcome = "return"
             /\ UNCHANGED storeVars]_vars

C7_Witness ==
    /\ result.op = "_initialize"
    /\ result.outcome = "return"
    /\ Ready
    /\ Len(rows) >= 1

(* C8: every async method calls its synchronous counterpart exactly once   *)
(* with the arguments it was given, the extra keyword arguments included.  *)
C8_AsyncPassesArgumentsThrough ==
    result.op \in AsyncOps =>
        calls = <<Call(SyncOf(result.op), result.args, result.kwargs)>>

(* C9: when the insertion of the j-th node of an add fails, the call ends  *)
(* in that error, the rows of nodes 1..j-1 stay committed after the rows   *)
(* of earlier calls, which are untouched, and there is no row for node j   *)
(* or any later node.                                                      *)
C9_RowsBeforeFailureStay ==
    [][(/\ result'.op \in AddOps
        /\ result'.outcome = "raise"
        /\ Ready) =>
          /\ FirstMisfit(result'.args) # 0
          /\ result'.exc # "none"
          /\ Extends(rows, rows', result'.args, FirstMisfit(result'.args) - 1)]_vars

C9_Witness ==
    /\ result.op = "add"
    /\ result.outcome = "raise"
    /\ result.raised_by = "execute"
    /\ Ready
    /\ Len(result.args) = 2
    /\ FirstMisfit(result.args) = 2
    /\ Len(rows) = 2
    /\ rows[2].node_id = result.args[1].node_id

(* C10: serialize_f32 returns 4 * len(v) bytes for every vector, the empty *)
(* one included: the 4-byte fields of the components in input order, with  *)
(* nothing before, between or after them.                                  *)
C10_FourBytesPerComponent ==
    result.op = "serialize_f32" =>
        /\ Len(result.ret) = 4 * Len(result.args)
        /\ \A i \in 1..Len(result.args) :
              /\ SubSeq(result.ret, 4 * i - 3, 4 * i) = PackFloat(result.args[i])
              /\ result.args[i] = One =>
                    SubSeq(result.ret, 4 * i - 3, 4 * i) =
                        IF byteorder = "big" THEN <<63, 128, 0, 0>>
                                             ELSE <<0, 0, 128, 63>>
        /\ \A k \in 1..Len(result.ret) : result.ret[k] \in 0..255

C10_Witness ==
    /\ result.op = "serialize_f32"
    /\ Len(result.args) = 2
    /\ result.args[1] = One
    /\ result.args[2] = Huge
    /\ Len(result.ret) = 8

====
